---- MODULE Spec2Model ----
(***************************************************************************)
(* Attendance tracking: the check-in / check-out request handlers of the   *)
(* two attendance applications of the repository,                         *)
(*   "v1"  emp_apps        (configurable windows, full timestamps), and    *)
(*   "v2"  attendance.v2   (fixed 08:00-09:00 / 17:00-18:00, time only).   *)
(* A deployment runs one of the two (impl).  Each request is a process     *)
(* whose steps are the handler's store operations, so that requests can    *)
(* interleave (Spec); SpecSeq runs the same steps one request at a time.   *)
(* SpecGen adds the create_attendance_records command and saves of stored  *)
(* rows to the interleaving requests of emp_apps; SpecQuery adds the       *)
(* status query, SpecNoProfile the requests of a user without employee     *)
(* profile, to the requests run one at a time.  SpecTz is SpecSeq in a     *)
(* local zone west of UTC as well, SpecFrame is Spec from a store that     *)
(* holds rows of other employees and dates.  SpecSettings (the settings    *)
(* table), SpecCmd (the command alone), SpecStaff (admin_add_employee) and *)
(* SpecLeave (leave requests) cover the administration of emp_apps.        *)
(*                                                                         *)
(* Time is in seconds.  An instant is day * 86400 + second of the day, in  *)
(* UTC; tz is the UTC offset of the configured local zone.                 *)
(***************************************************************************)
EXTENDS Integers, FiniteSets, Sequences, TLC

\* ---------------------------------------------------------------- bounds
NProcs == 2
NEmps == 1
NDays == 1
NAdmins == 2
NNames == 2
NLeaves == 2

Procs == 1..NProcs
Employees == 1..NEmps
Days == 0..(NDays - 1)

\* ------------------------------------------------------------------ time
DaySeconds == 24 * 3600
HM(h, m) == h * 3600 + m * 60
HMS(h, m, s) == HM(h, m) + s

\* The times of day at which the clock stops: both sides and both bounds of
\* every window, the grace period after the standard time, the half-hour
\* after the start of the check-out window, and one instant between two
\* minutes (timezone.now() has the seconds).
Ticks ==
  { HM(8, 0), HM(8, 10), HM(8, 55), HM(9, 0), HM(9, 10), HM(9, 20),
    HM(17, 0), HM(17, 5), HMS(17, 7, 30), HM(17, 30), HM(18, 0) }

Instants == { d * DaySeconds + t : d \in Days, t \in Ticks }
FirstInstant == CHOOSE i \in Instants : \A j \in Instants : i <= j

DateOf(t) == t \div DaySeconds
TimeOf(t) == t % DaySeconds

\* timezone.now(): the instant, in UTC.
TimezoneNow(clk) == clk
\* timezone.localtime(): the instant on the local clock.
Localtime(clk, off) == clk + off
\* date.today(): the date on the server's local clock.
DateToday(clk, off) == DateOf(clk + off)
\* time.strftime('%H:%M'), read back by time.fromisoformat: seconds are cut.
StrfHM(t) == (t \div 60) * 60

\* -------------------------------------------------------------- settings
NoTime == -1
NoHours == -1

NoSettings == [ exists |-> FALSE, std |-> 0, thr |-> 0,
                ciStart |-> 0, ciEnd |-> 0, coStart |-> 0, coEnd |-> 0 ]

\* The field defaults of AttendanceSettings.
DefaultSettings ==
  [ exists |-> TRUE, std |-> HM(9, 0), thr |-> 15,
    ciStart |-> HM(7, 0), ciEnd |-> HM(11, 0),
    coStart |-> HM(15, 0), coEnd |-> HM(20, 0) ]

\* Rows an administrator may have stored: the 08:00-09:00 / 17:00-18:00
\* windows, and a check-in window that reaches into the check-out window.
ScenarioSettings ==
  [ exists |-> TRUE, std |-> HM(9, 0), thr |-> 15,
    ciStart |-> HM(8, 0), ciEnd |-> HM(9, 0),
    coStart |-> HM(17, 0), coEnd |-> HM(18, 0) ]

OverlapSettings ==
  [ exists |-> TRUE, std |-> HM(9, 0), thr |-> 15,
    ciStart |-> HM(8, 0), ciEnd |-> HM(17, 5),
    coStart |-> HM(17, 0), coEnd |-> HM(18, 0) ]

\* The constants written into the handlers of attendance.v2.
V2Windows ==
  [ exists |-> TRUE, std |-> HM(9, 0), thr |-> 15,
    ciStart |-> HM(8, 0), ciEnd |-> HM(9, 0),
    coStart |-> HM(17, 0), coEnd |-> HM(18, 0) ]

\* AttendanceSettings.objects.get_or_create(pk=1)
SettingsGetOrCreate(row) == IF row.exists THEN row ELSE DefaultSettings

\* Mutants of IsCheckInAllowed: no upper bound; bounds excluded.
IsCheckInAllowed_NoEnd(cfg, t) == cfg.ciStart <= TimeOf(t)
IsCheckInAllowed_Strict(cfg, t) ==
  cfg.ciStart < TimeOf(t) /\ TimeOf(t) < cfg.ciEnd

\* AttendanceSettings.is_check_in_allowed / is_check_out_allowed: the time
\* of day of the (UTC) instant against the inclusive window.
IsCheckInAllowed(cfg, t) == cfg.ciStart <= TimeOf(t) /\ TimeOf(t) <= cfg.ciEnd
IsCheckOutAllowed(cfg, t) == cfg.coStart <= TimeOf(t) /\ TimeOf(t) <= cfg.coEnd

\* --------------------------------------------------------------- records
NoRecord ==
  [ exists |-> FALSE, cin |-> NoTime, cout |-> NoTime, status |-> "none",
    wh |-> NoHours, late |-> FALSE ]

\* A row with the field defaults of the model (status 'absent', no times).
AbsentRecord ==
  [ exists |-> TRUE, cin |-> NoTime, cout |-> NoTime, status |-> "absent",
    wh |-> NoHours, late |-> FALSE ]

\* The store also holds rows that no request of the model touches: those of
\* a colleague, and those of the day before day 0.
Colleagues == {NEmps + 1}
PastDays == {0 - 1}
Keys == (Employees \cup Colleagues) \X (Days \cup PastDays)

\* Mutant of RoundHours: half way goes up.
RoundHours_HalfUp(sec) == (sec + 18) \div 36

\* round(seconds / 3600, 2), in hundredths of an hour.  A quotient that is
\* not half way between two hundredths rounds to the nearer one; the ties
\* that a binary float holds exactly (multiples of 450 seconds) go to the
\* even hundredth.  No other tie occurs in the model: the seconds between
\* two instants are multiples of 150, those of a generated row of 60.
RoundHours(sec) ==
  LET q == sec \div 36
      r == sec % 36
  IN  IF r < 18 THEN q
      ELSE IF r > 18 THEN q + 1
      ELSE IF q % 2 = 0 THEN q ELSE q + 1

\* Mutant of CalculateWorkHours: the hours are never set.
CalculateWorkHours_Never(rec) == rec

\* AttendanceRecord.calculate_work_hours
CalculateWorkHours(rec) ==
  IF rec.cin # NoTime /\ rec.cout # NoTime
  THEN [rec EXCEPT !.wh = RoundHours(rec.cout - rec.cin)]
  ELSE rec

\* AttendanceRecord.is_late(standard_time): the standard time of day, on the
\* local clock, of the (UTC) date of the check-in.  late_threshold_minutes
\* is not read.
IsLate(rec, standard, off) ==
  /\ rec.cin # NoTime
  /\ rec.cin > DateOf(rec.cin) * DaySeconds + standard - off

\* AttendanceRecord.save: work hours when both times are there, and a status
\* for a row that has a check-in and is still 'absent' (against "09:00").
SaveRecord(rec, off) ==
  LET r1 == CalculateWorkHours(rec)
  IN  IF r1.cin # NoTime /\ r1.status = "absent"
      THEN [r1 EXCEPT !.status =
              IF IsLate(r1, HM(9, 0), off) THEN "late" ELSE "present"]
      ELSE r1

\* ----------------------------------------------------------------- state
VARIABLES
  impl,      \* "v1" or "v2": the application that is deployed
  tz,        \* UTC offset of the local zone, in seconds
  clock,     \* the current instant
  settings,  \* the AttendanceSettings row (v1)
  records,   \* the attendance rows, by (employee, date)
  req,       \* the requests: one record per process
  weekday0,  \* the day of the week of day 0 (Monday is 0)
  dup,       \* an insert was attempted for a pair that had a row
  view,      \* the last answer of the status query
  seeded,    \* the pairs that had a row when the deployment started
  cmd,       \* the outcome of the last create_attendance_records run
  extra,     \* the number of settings rows with a key other than 1
  autoKeys,  \* the number of settings keys drawn from the key sequence
  adm,       \* the administrators' 'add settings' requests
  users,     \* the usernames of the User rows added by admin_add_employee
  profiles,  \* the Employee rows added by admin_add_employee
  addReq,    \* the admin_add_employee requests
  leaves     \* the leave requests, by id

office == << seeded, extra, autoKeys, adm, users, profiles, addReq, leaves >>
vars == << impl, tz, clock, settings, records, req, weekday0, dup, view,
           cmd, office >>

Admins == 1..NAdmins
Usernames == 1..NNames
EmployeeIds == 1..NNames
LeaveIds == 1..NLeaves

NoCommand == [ out |-> "none", emps |-> {}, start |-> 0, end |-> 0,
               clear |-> FALSE ]
IdleAdd == [ pc |-> "idle", username |-> 0, empId |-> 0, bad |-> FALSE,
             resp |-> "none" ]
NoLeave == [ exists |-> FALSE, status |-> "none", approvedBy |-> FALSE,
             approvedDate |-> NoTime ]

\* The administration tables as a deployment starts: no request of an
\* administrator in flight, no account added, no leave request; a settings
\* row that is there was added through the admin (its key came from the
\* key sequence).
InitOffice ==
  /\ seeded = { k \in Keys : records[k].exists }
  /\ cmd = NoCommand
  /\ extra = 0
  /\ autoKeys = IF settings.exists THEN 1 ELSE 0
  /\ adm = [a \in Admins |-> "idle"]
  /\ users = {}
  /\ profiles = {}
  /\ addReq = [a \in Admins |-> IdleAdd]
  /\ leaves = [i \in LeaveIds |-> NoLeave]

IdleReq ==
  [ pc |-> "idle", kind |-> "none", emp |-> 0, today |-> 0, time |-> 0,
    cfg |-> NoSettings, rec |-> NoRecord, pre |-> NoRecord, fresh |-> FALSE,
    resp |-> "none" ]

\* No status query was answered yet.
NoView == [ resp |-> "none", emp |-> 0, canIn |-> "none", canOut |-> "none" ]

\* The local zone of the deployment is UTC (settings.py is not part of the
\* sources; the operators above take the offset as a parameter).
TzOffsets == {0}

\* The tables as a deployment starts: no request in flight; in v1 no
\* attendance row, and the settings row either absent (it is created with
\* the defaults by the first request) or stored by an administrator; in v2
\* no attendance row, or one row with the field defaults of Attendance
\* (status 'absent', no times) for the first employee and day.
Init ==
  /\ impl \in {"v1", "v2"}
  /\ tz \in TzOffsets
  /\ clock = FirstInstant
  /\ settings \in IF impl = "v1"
                  THEN {NoSettings, ScenarioSettings, OverlapSettings}
                  ELSE {NoSettings}
  /\ records \in IF impl = "v1"
                 THEN {[k \in Keys |-> NoRecord]}
                 ELSE {[k \in Keys |-> NoRecord],
                       [k \in Keys |-> IF k = <<1, 0>> THEN AbsentRecord
                                                       ELSE NoRecord]}
  /\ req = [p \in Procs |-> IdleReq]
  /\ weekday0 = 0
  /\ dup = FALSE
  /\ view = NoView
  /\ InitOffice

Free(p) == req[p].pc \in {"idle", "done"}
Quiet == \A p \in Procs : Free(p)

\* A request ends with a failure: its copy of the row is dropped.
Finish(p, r) ==
  [req EXCEPT ![p].pc = "done", ![p].resp = r, ![p].rec = NoRecord]

\* The clock moves to the next instant.
Tick(seq) ==
  /\ seq => Quiet
  /\ \E t \in Instants :
       /\ t > clock
       /\ \A u \in Instants : u > clock => t <= u
       /\ clock' = t
  /\ UNCHANGED << office, cmd, impl, tz, weekday0, dup, view, settings, records, req >>

\* A request starts: with seq, only when no other request is in flight.
MayBegin(p, seq) == Free(p) /\ (seq => Quiet)

\* ------------------------------------------- v1: emp_apps/views.py
\* attendance_dashboard: get-or-create of today's row, and of the settings.
Dashboard(e, seq) ==
  LET k == << e, DateToday(clock, tz) >>
  IN  /\ impl = "v1"
      /\ seq => Quiet
      /\ k \in Keys
      /\ records' = IF records[k].exists THEN records
                    ELSE [records EXCEPT ![k] = AbsentRecord]
      /\ settings' = SettingsGetOrCreate(settings)
      /\ UNCHANGED << office, cmd, impl, tz, weekday0, dup, view, clock, req >>

\* check_in, to the window test: today, current_time, the settings row.
CheckInBegin(p, e, seq) ==
  LET today == DateToday(clock, tz)
      now == TimezoneNow(clock)
      cfg == SettingsGetOrCreate(settings)
      r0 == [ pc |-> "goc", kind |-> "in", emp |-> e, today |-> today,
              time |-> now, cfg |-> cfg, rec |-> NoRecord,
              pre |-> IF seq THEN records[<< e, today >>] ELSE NoRecord,
              fresh |-> records[<< e, today >>].cin = NoTime, resp |-> "none" ]
  IN  /\ impl = "v1"
      /\ MayBegin(p, seq)
      /\ << e, today >> \in Keys
      /\ settings' = cfg
      /\ req' = [req EXCEPT ![p] =
                   IF IsCheckInAllowed(cfg, now) THEN r0
                   ELSE [r0 EXCEPT !.pc = "done", !.resp = "OutOfWindow"]]
      /\ UNCHANGED << office, cmd, impl, tz, weekday0, dup, view, clock, records >>

\* Mutant of CheckInGetOrCreate: the row is built but not stored.
CheckInGetOrCreate_NotStored(p) ==
  LET k == << req[p].emp, req[p].today >>
      row == IF records[k].exists THEN records[k] ELSE AbsentRecord
  IN  /\ impl = "v1"
      /\ req[p].pc = "goc" /\ req[p].kind = "in"
      /\ req' = [req EXCEPT ![p].pc = "read", ![p].rec = row]
      /\ UNCHANGED << office, cmd, impl, tz, weekday0, dup, view, clock, settings, records >>

\* check_in: get_or_create of today's row (defaults: status 'absent').
CheckInGetOrCreate(p) ==
  LET k == << req[p].emp, req[p].today >>
      row == IF records[k].exists THEN records[k] ELSE AbsentRecord
  IN  /\ impl = "v1"
      /\ req[p].pc = "goc" /\ req[p].kind = "in"
      /\ records' = [records EXCEPT ![k] = row]
      /\ req' = [req EXCEPT ![p].pc = "read", ![p].rec = row]
      /\ UNCHANGED << office, cmd, impl, tz, weekday0, dup, view, clock, settings >>

\* Mutant of CheckInRead: the test of check_in_time is left out.
CheckInRead_NoGuard(p) ==
  LET r1 == [req[p].rec EXCEPT !.cin = req[p].time]
      r2 == [r1 EXCEPT !.status =
               IF r1.cin > DateOf(r1.cin) * DaySeconds + req[p].cfg.std
               THEN "late" ELSE "present"]
  IN  /\ impl = "v1"
      /\ req[p].pc = "read" /\ req[p].kind = "in"
      /\ req' = [req EXCEPT ![p].pc = "save", ![p].rec = r2]
      /\ UNCHANGED << office, cmd, impl, tz, weekday0, dup, view, clock, settings, records >>

\* check_in: the test of check_in_time on the row as it was fetched, then
\* the new check-in time and status on that copy.
CheckInRead(p) ==
  LET r == req[p].rec
      r1 == [r EXCEPT !.cin = req[p].time]
      r2 == [r1 EXCEPT !.status =
               IF IsLate(r1, StrfHM(req[p].cfg.std), tz) THEN "late"
               ELSE "present"]
  IN  /\ impl = "v1"
      /\ req[p].pc = "read" /\ req[p].kind = "in"
      /\ req' = IF r.cin # NoTime
                THEN Finish(p, "AlreadyCheckedIn")
                ELSE [req EXCEPT ![p].pc = "save", ![p].rec = r2]
      /\ UNCHANGED << office, cmd, impl, tz, weekday0, dup, view, clock, settings, records >>

\* check_in: attendance_record.save() writes every field of the copy.
CheckInSave(p) ==
  LET k == << req[p].emp, req[p].today >>
      r == SaveRecord(req[p].rec, tz)
  IN  /\ impl = "v1"
      /\ req[p].pc = "save" /\ req[p].kind = "in"
      /\ records' = [records EXCEPT ![k] = r]
      /\ req' = [req EXCEPT ![p].pc = "done", ![p].rec = r,
                            ![p].resp = "Success"]
      /\ UNCHANGED << office, cmd, impl, tz, weekday0, dup, view, clock, settings >>

\* Mutant of CheckOutBegin: the request takes the employee's open row of
\* the day before, when there is one, in place of today's.
CheckOutBegin_OpenRow(p, e, seq) ==
  LET past == << e, DateToday(clock, tz) - 1 >>
      today == IF /\ past \in Keys
                  /\ records[past].cin # NoTime
                  /\ records[past].cout = NoTime
               THEN past[2] ELSE DateToday(clock, tz)
      now == TimezoneNow(clock)
      cfg == SettingsGetOrCreate(settings)
      r0 == [ pc |-> "get", kind |-> "out", emp |-> e, today |-> today,
              time |-> now, cfg |-> cfg, rec |-> NoRecord,
              pre |-> IF seq THEN records[<< e, today >>] ELSE NoRecord,
              fresh |-> records[<< e, today >>].cin = NoTime, resp |-> "none" ]
  IN  /\ impl = "v1"
      /\ MayBegin(p, seq)
      /\ << e, today >> \in Keys
      /\ settings' = cfg
      /\ req' = [req EXCEPT ![p] =
                   IF IsCheckOutAllowed(cfg, now) THEN r0
                   ELSE [r0 EXCEPT !.pc = "done", !.resp = "OutOfWindow"]]
      /\ UNCHANGED << office, cmd, impl, tz, weekday0, dup, view, clock, records >>

\* Mutant of CheckOutBegin: the window test is left out.
CheckOutBegin_NoWindow(p, e, seq) ==
  LET today == DateToday(clock, tz)
      cfg == SettingsGetOrCreate(settings)
  IN  /\ impl = "v1"
      /\ MayBegin(p, seq)
      /\ << e, today >> \in Keys
      /\ settings' = cfg
      /\ req' = [req EXCEPT ![p] =
                   [ pc |-> "get", kind |-> "out", emp |-> e,
                     today |-> today, time |-> TimezoneNow(clock),
                     cfg |-> cfg, rec |-> NoRecord,
                     pre |-> IF seq THEN records[<< e, today >>]
                             ELSE NoRecord,
                     fresh |-> records[<< e, today >>].cin = NoTime,
                     resp |-> "none" ]]
      /\ UNCHANGED << office, cmd, impl, tz, weekday0, dup, view, clock, records >>

\* check_out, to the window test.
CheckOutBegin(p, e, seq) ==
  LET today == DateToday(clock, tz)
      now == TimezoneNow(clock)
      cfg == SettingsGetOrCreate(settings)
      r0 == [ pc |-> "get", kind |-> "out", emp |-> e, today |-> today,
              time |-> now, cfg |-> cfg, rec |-> NoRecord,
              pre |-> IF seq THEN records[<< e, today >>] ELSE NoRecord,
              fresh |-> records[<< e, today >>].cin = NoTime, resp |-> "none" ]
  IN  /\ impl = "v1"
      /\ MayBegin(p, seq)
      /\ << e, today >> \in Keys
      /\ settings' = cfg
      /\ req' = [req EXCEPT ![p] =
                   IF IsCheckOutAllowed(cfg, now) THEN r0
                   ELSE [r0 EXCEPT !.pc = "done", !.resp = "OutOfWindow"]]
      /\ UNCHANGED << office, cmd, impl, tz, weekday0, dup, view, clock, records >>

\* The least number of seconds between check-in and check-out.
MinimumWorkSeconds == 30 * 60

\* Mutant of CheckOutGet: exactly 30 minutes is still too soon.
CheckOutGet_Le(p) ==
  LET r == records[<< req[p].emp, req[p].today >>]
  IN  /\ impl = "v1"
      /\ req[p].pc = "get" /\ req[p].kind = "out"
      /\ req' =
           IF ~r.exists \/ r.cin = NoTime THEN Finish(p, "NotCheckedIn")
           ELSE IF r.cout # NoTime THEN Finish(p, "AlreadyCheckedOut")
           ELSE IF req[p].time - r.cin <= 30 * 60 THEN Finish(p, "TooSoon")
           ELSE [req EXCEPT ![p].pc = "save",
                            ![p].rec = [r EXCEPT !.cout = req[p].time]]
      /\ UNCHANGED << office, cmd, impl, tz, weekday0, dup, view, clock, settings, records >>

\* Mutant of CheckOutGet: the minimum work time is not tested.
CheckOutGet_NoMinimum(p) ==
  LET r == records[<< req[p].emp, req[p].today >>]
  IN  /\ impl = "v1"
      /\ req[p].pc = "get" /\ req[p].kind = "out"
      /\ req' =
           IF ~r.exists \/ r.cin = NoTime THEN Finish(p, "NotCheckedIn")
           ELSE IF r.cout # NoTime THEN Finish(p, "AlreadyCheckedOut")
           ELSE [req EXCEPT ![p].pc = "save",
                            ![p].rec = [r EXCEPT !.cout = req[p].time]]
      /\ UNCHANGED << office, cmd, impl, tz, weekday0, dup, view, clock, settings, records >>

\* Mutant of CheckOutGet: get_or_create in place of get.
CheckOutGet_Creates(p) ==
  LET k == << req[p].emp, req[p].today >>
      r == IF records[k].exists THEN records[k] ELSE AbsentRecord
  IN  /\ impl = "v1"
      /\ req[p].pc = "get" /\ req[p].kind = "out"
      /\ records' = [records EXCEPT ![k] = r]
      /\ req' =
           IF r.cin = NoTime THEN Finish(p, "NotCheckedIn")
           ELSE IF r.cout # NoTime THEN Finish(p, "AlreadyCheckedOut")
           ELSE IF req[p].time - r.cin < 30 * 60 THEN Finish(p, "TooSoon")
           ELSE [req EXCEPT ![p].pc = "save",
                            ![p].rec = [r EXCEPT !.cout = req[p].time]]
      /\ UNCHANGED << office, cmd, impl, tz, weekday0, dup, view, clock, settings >>

\* Mutant of CheckOutGet: the test of check_out_time is left out.
CheckOutGet_NoOutGuard(p) ==
  LET r == records[<< req[p].emp, req[p].today >>]
  IN  /\ impl = "v1"
      /\ req[p].pc = "get" /\ req[p].kind = "out"
      /\ req' =
           IF ~r.exists \/ r.cin = NoTime THEN Finish(p, "NotCheckedIn")
           ELSE IF req[p].time - r.cin < 30 * 60 THEN Finish(p, "TooSoon")
           ELSE [req EXCEPT ![p].pc = "save",
                            ![p].rec = [r EXCEPT !.cout = req[p].time]]
      /\ UNCHANGED << office, cmd, impl, tz, weekday0, dup, view, clock, settings, records >>

\* check_out: the fetch of today's row and the tests on the fetched copy, in
\* the handler's order; then the check-out time and work hours on the copy.
CheckOutGet(p) ==
  LET k == << req[p].emp, req[p].today >>
      r == records[k]
      r1 == CalculateWorkHours([r EXCEPT !.cout = req[p].time])
  IN  /\ impl = "v1"
      /\ req[p].pc = "get" /\ req[p].kind = "out"
      /\ req' =
           IF ~r.exists THEN Finish(p, "NotCheckedIn")
           ELSE IF r.cin = NoTime
             THEN Finish(p, "NotCheckedIn")
           ELSE IF r.cout # NoTime
             THEN Finish(p, "AlreadyCheckedOut")
           ELSE IF req[p].time - r.cin < MinimumWorkSeconds
             THEN Finish(p, "TooSoon")
           ELSE [req EXCEPT ![p].pc = "save", ![p].rec = r1]
      /\ UNCHANGED << office, cmd, impl, tz, weekday0, dup, view, clock, settings, records >>

\* Mutant of CheckOutSave: the status is set again at check-out.
CheckOutSave_SetsPresent(p) ==
  LET k == << req[p].emp, req[p].today >>
      r == [SaveRecord(req[p].rec, tz) EXCEPT !.status = "present"]
  IN  /\ impl = "v1"
      /\ req[p].pc = "save" /\ req[p].kind = "out"
      /\ records' = [records EXCEPT ![k] = r]
      /\ req' = [req EXCEPT ![p].pc = "done", ![p].rec = r,
                            ![p].resp = "Success"]
      /\ UNCHANGED << office, cmd, impl, tz, weekday0, dup, view, clock, settings >>

\* check_out: attendance_record.save() writes every field of the copy.
CheckOutSave(p) ==
  LET k == << req[p].emp, req[p].today >>
      r == SaveRecord(req[p].rec, tz)
  IN  /\ impl = "v1"
      /\ req[p].pc = "save" /\ req[p].kind = "out"
      /\ records' = [records EXCEPT ![k] = r]
      /\ req' = [req EXCEPT ![p].pc = "done", ![p].rec = r,
                            ![p].resp = "Success"]
      /\ UNCHANGED << office, cmd, impl, tz, weekday0, dup, view, clock, settings >>

\* ------- management/commands/create_attendance_records.py, and admin.py
\* date.weekday() of day d: Monday is 0, Saturday 5, Sunday 6.
Weekday(d) == (weekday0 + d) % 7

\* The draws of generate_attendance_record that the model follows, as
\* << minutes after 09:00 of the check-in, minutes after 17:00 of the
\* check-out >>: the ends of randint(15, 90) x randint(0, 90) of the late
\* pattern and of randint(-15, 15) x randint(0, 60) of the normal one.
LateDraws == { << 15, 0 >>, << 90, 90 >> }
PresentDraws == { << 0 - 15, 0 >>, << 15, 60 >> }

\* timezone.make_aware(datetime.combine(date, time)): the instant at which
\* the local clock shows that time of that day.
MakeAware(d, t, off) == d * DaySeconds + t - off

\* A generated row with both times: work_hours is computed by the command
\* (bulk_create does not call save).
GeneratedRow(d, draw, st, off) ==
  LET i == MakeAware(d, HM(9, 0) + draw[1] * 60, off)
      o == MakeAware(d, HM(17, 0) + draw[2] * 60, off)
  IN  [ exists |-> TRUE, cin |-> i, cout |-> o, status |-> st,
        wh |-> RoundHours(o - i), late |-> FALSE ]

\* generate_attendance_record: the rows it can return for day d.
GenerateAttendanceRecord(d, off) ==
  IF Weekday(d) >= 5
  THEN { [AbsentRecord EXCEPT !.status = "holiday"] }
  ELSE { AbsentRecord }
       \cup { GeneratedRow(d, w, "late", off) : w \in LateDraws }
       \cup { GeneratedRow(d, w, "present", off) : w \in PresentDraws }

\* Mutant of RowsToCreate: the test for an existing row is left out.
RowsToCreate_NoExistsTest(rows, range, clear) == range

\* handle: the pairs for which a row is generated: with --clear-existing
\* every pair of the range, otherwise the pairs that have no row.
RowsToCreate(rows, range, clear) ==
  { k \in range : clear \/ ~rows[k].exists }

\* Mutant of CommandRange: the end date is left out.
CommandRange_HalfOpen(emps, start, end) ==
  { k \in Keys : k[1] \in emps /\ start <= k[2] /\ k[2] < end }

\* handle: the (employee, date) pairs of the run, date__range and the
\* while loop being inclusive at both ends.
CommandRange(emps, start, end) ==
  { k \in Keys : k[1] \in emps /\ start <= k[2] /\ k[2] <= end }

\* handle, from 'Get employees' on, for the employees emps (all active
\* ones, or those of --employees): with --clear-existing the rows of the
\* range are deleted first; the generated rows are stored with bulk_create.
BulkCreate(emps, start, end, clear) ==
  LET range == CommandRange(emps, start, end)
      kept == [k \in Keys |->
                 IF clear /\ k \in range THEN NoRecord ELSE records[k]]
      todo == RowsToCreate(kept, range, clear)
      rows == UNION { GenerateAttendanceRecord(k[2], tz) : k \in Keys }
  IN  /\ emps # {}
      /\ \E g \in [todo -> rows] :
           /\ \A k \in todo : g[k] \in GenerateAttendanceRecord(k[2], tz)
           /\ records' = [k \in Keys |-> IF k \in todo THEN g[k] ELSE kept[k]]
      /\ dup' = (dup \/ \E k \in todo : kept[k].exists)

\* create_attendance_records with dates in order, its output not recorded.
\* The command runs while no request is in flight.
CreateAttendanceRecords(emps, start, end, clear) ==
  /\ impl = "v1"
  /\ Quiet
  /\ start <= end
  /\ BulkCreate(emps, start, end, clear)
  /\ UNCHANGED << office, cmd, impl, tz, clock, settings, req, weekday0, view >>

\* create_attendance_records, Command.handle as a whole, its arguments and
\* its outcome recorded in cmd: 'Start date must be before end date' and
\* nothing else when start > end.
Handle(emps, start, end, clear) ==
  /\ impl = "v1"
  /\ Quiet
  /\ IF start > end
     THEN /\ cmd' = [ out |-> "error", emps |-> emps, start |-> start,
                      end |-> end, clear |-> clear ]
          /\ UNCHANGED << records, dup >>
     ELSE /\ cmd' = [ out |-> "ok", emps |-> emps, start |-> start,
                      end |-> end, clear |-> clear ]
          /\ BulkCreate(emps, start, end, clear)
  /\ UNCHANGED << office, impl, tz, clock, settings, req, weekday0, view >>

\* AttendanceRecordAdmin: a row is saved from the change form as it is
\* (AttendanceRecord.save on the stored fields).
AdminSaveRecord(k) ==
  /\ impl = "v1"
  /\ Quiet
  /\ records[k].exists
  /\ records' = [records EXCEPT ![k] = SaveRecord(records[k], tz)]
  /\ UNCHANGED << office, cmd, impl, tz, clock, settings, req, weekday0, dup, view >>

\* ------------------------------- v2: attendance.v2 emp_attd/views.py
\* The time after which a check-in is late.
V2LateAfter == HM(9, 15)

\* check_in, to the window test: the local date and the local time of day.
V2CheckInBegin(p, e, seq) ==
  LET today == DateOf(Localtime(clock, tz))
      now == TimeOf(Localtime(clock, tz))
      r0 == [ pc |-> "goc", kind |-> "in", emp |-> e, today |-> today,
              time |-> now, cfg |-> V2Windows, rec |-> NoRecord,
              pre |-> IF seq THEN records[<< e, today >>] ELSE NoRecord,
              fresh |-> records[<< e, today >>].cin = NoTime, resp |-> "none" ]
  IN  /\ impl = "v2"
      /\ MayBegin(p, seq)
      /\ << e, today >> \in Keys
      /\ req' = [req EXCEPT ![p] =
                   IF HM(8, 0) <= now /\ now <= HM(9, 0) THEN r0
                   ELSE [r0 EXCEPT !.pc = "done", !.resp = "OutOfWindow"]]
      /\ UNCHANGED << office, cmd, impl, tz, weekday0, dup, view, clock, settings, records >>

\* The fields check_in gives a row: the time, the status, is_late.
V2CheckedIn(row, now) ==
  [row EXCEPT !.cin = now,
              !.status = IF now > V2LateAfter THEN "late" ELSE "present",
              !.late = (now > V2LateAfter)]

\* Mutant of V2CheckInGetOrCreate: the check-in is not in the defaults; a
\* row that is created is updated and saved like one that was there.
V2CheckInGetOrCreate_NoDefaults(p) ==
  LET k == << req[p].emp, req[p].today >>
      row == IF records[k].exists THEN records[k] ELSE AbsentRecord
  IN  /\ impl = "v2"
      /\ req[p].pc = "goc" /\ req[p].kind = "in"
      /\ records' = [records EXCEPT ![k] = row]
      /\ req' =
           IF row.cin # NoTime
             THEN Finish(p, "AlreadyCheckedIn")
           ELSE [req EXCEPT ![p].pc = "save",
                            ![p].rec = V2CheckedIn(row, req[p].time)]
      /\ UNCHANGED << office, cmd, impl, tz, weekday0, dup, view, clock, settings >>

\* check_in: get_or_create with the check-in in the defaults.  A row that is
\* created is the check-in; a row that was there and has a check-in time is
\* 'already checked in'; a row that was there without one is updated next.
V2CheckInGetOrCreate(p) ==
  LET k == << req[p].emp, req[p].today >>
      created == ~records[k].exists
      row == IF created THEN V2CheckedIn(AbsentRecord, req[p].time)
             ELSE records[k]
  IN  /\ impl = "v2"
      /\ req[p].pc = "goc" /\ req[p].kind = "in"
      /\ records' = [records EXCEPT ![k] = row]
      /\ req' =
           IF ~created /\ row.cin # NoTime
             THEN Finish(p, "AlreadyCheckedIn")
           ELSE IF row.cin = NoTime
             THEN [req EXCEPT ![p].pc = "save",
                              ![p].rec = V2CheckedIn(row, req[p].time)]
           ELSE [req EXCEPT ![p].pc = "done", ![p].resp = "Success",
                            ![p].rec = row]
      /\ UNCHANGED << office, cmd, impl, tz, weekday0, dup, view, clock, settings >>

\* check_in: attendance.save() of the updated copy.
V2CheckInSave(p) ==
  LET k == << req[p].emp, req[p].today >>
  IN  /\ impl = "v2"
      /\ req[p].pc = "save" /\ req[p].kind = "in"
      /\ records' = [records EXCEPT ![k] = req[p].rec]
      /\ req' = [req EXCEPT ![p].pc = "done", ![p].resp = "Success"]
      /\ UNCHANGED << office, cmd, impl, tz, weekday0, dup, view, clock, settings >>

\* check_out, to the window test.
V2CheckOutBegin(p, e, seq) ==
  LET today == DateOf(Localtime(clock, tz))
      now == TimeOf(Localtime(clock, tz))
      r0 == [ pc |-> "get", kind |-> "out", emp |-> e, today |-> today,
              time |-> now, cfg |-> V2Windows, rec |-> NoRecord,
              pre |-> IF seq THEN records[<< e, today >>] ELSE NoRecord,
              fresh |-> records[<< e, today >>].cin = NoTime, resp |-> "none" ]
  IN  /\ impl = "v2"
      /\ MayBegin(p, seq)
      /\ << e, today >> \in Keys
      /\ req' = [req EXCEPT ![p] =
                   IF HM(17, 0) <= now /\ now <= HM(18, 0) THEN r0
                   ELSE [r0 EXCEPT !.pc = "done", !.resp = "OutOfWindow"]]
      /\ UNCHANGED << office, cmd, impl, tz, weekday0, dup, view, clock, settings, records >>

\* check_out: the fetch of today's row and the tests on the fetched copy.
V2CheckOutGet(p) ==
  LET k == << req[p].emp, req[p].today >>
      r == records[k]
  IN  /\ impl = "v2"
      /\ req[p].pc = "get" /\ req[p].kind = "out"
      /\ req' =
           IF ~r.exists THEN Finish(p, "NotCheckedIn")
           ELSE IF r.cin = NoTime
             THEN Finish(p, "NotCheckedIn")
           ELSE IF r.cout # NoTime
             THEN Finish(p, "AlreadyCheckedOut")
           ELSE [req EXCEPT ![p].pc = "save",
                            ![p].rec = [r EXCEPT !.cout = req[p].time]]
      /\ UNCHANGED << office, cmd, impl, tz, weekday0, dup, view, clock, settings, records >>

\* check_out: attendance.save() of the copy.
V2CheckOutSave(p) ==
  LET k == << req[p].emp, req[p].today >>
  IN  /\ impl = "v2"
      /\ req[p].pc = "save" /\ req[p].kind = "out"
      /\ records' = [records EXCEPT ![k] = req[p].rec]
      /\ req' = [req EXCEPT ![p].pc = "done", ![p].resp = "Success"]
      /\ UNCHANGED << office, cmd, impl, tz, weekday0, dup, view, clock, settings >>

\* ---------------------------------- the status query, and users without
\* an employee profile
\* The authenticated users: the employees, and user 0, who has no Employee
\* row (Employee.objects.get(user=request.user) raises DoesNotExist).
Users == 0..NEmps

\* A Python truth value as it is serialized.
PyBool(b) == IF b THEN "True" ELSE "False"

\* Mutant of CanCheckIn: the window alone.
CanCheckIn_WindowOnly(cfg, now, row) == PyBool(IsCheckInAllowed(cfg, now))

\* get_attendance_status: can_check_in and can_check_out as the `and`
\* chains evaluate: the first falsy operand, or the last operand (None for
\* a row without check-in time inside the check-out window).
CanCheckIn(cfg, now, row) ==
  IF ~row.exists THEN PyBool(IsCheckInAllowed(cfg, now))
  ELSE IF ~IsCheckInAllowed(cfg, now) THEN "False"
  ELSE PyBool(row.cin = NoTime)

\* Mutant of CanCheckOut: check_in_time is not an operand.
CanCheckOut_NoInTest(cfg, now, row) ==
  IF ~row.exists THEN "False"
  ELSE IF ~IsCheckOutAllowed(cfg, now) THEN "False"
  ELSE PyBool(row.cout = NoTime)

CanCheckOut(cfg, now, row) ==
  IF ~row.exists THEN "False"
  ELSE IF ~IsCheckOutAllowed(cfg, now) THEN "False"
  ELSE IF row.cin = NoTime THEN "None"
  ELSE PyBool(row.cout = NoTime)

\* get_attendance_status: the employee of the user, today, the current
\* time, get_or_create of the settings row, the fetch of today's row, the
\* two flags.
GetAttendanceStatus(u) ==
  LET today == DateToday(clock, tz)
      now == TimezoneNow(clock)
      cfg == SettingsGetOrCreate(settings)
      row == records[<< u, today >>]
  IN  /\ impl = "v1"
      /\ Quiet
      /\ u \in Employees => << u, today >> \in Keys
      /\ IF u \notin Employees
         THEN /\ view' = [NoView EXCEPT !.resp = "ProfileNotFound"]
              /\ settings' = settings
         ELSE /\ view' = [ resp |-> "Status", emp |-> u,
                           canIn |-> CanCheckIn(cfg, now, row),
                           canOut |-> CanCheckOut(cfg, now, row) ]
              /\ settings' = cfg
      /\ UNCHANGED << office, cmd, impl, tz, clock, records, req, weekday0, dup >>

\* Attendance.can_check_in / can_check_out of attendance.v2, on the local
\* time of day.
V2CanCheckIn(now, row) ==
  IF ~(HM(8, 0) <= now /\ now <= HM(9, 0)) THEN "False"
  ELSE PyBool(row.cin = NoTime)

V2CanCheckOut(now, row) ==
  IF ~(HM(17, 0) <= now /\ now <= HM(18, 0)) THEN "False"
  ELSE IF row.cin = NoTime THEN "None"
  ELSE PyBool(row.cout = NoTime)

\* employee_dashboard of attendance.v2: today's row, if there is one, is
\* handed to the page, which reads its two properties.
V2EmployeeDashboard(u) ==
  LET today == DateOf(Localtime(clock, tz))
      now == TimeOf(Localtime(clock, tz))
      row == records[<< u, today >>]
  IN  /\ impl = "v2"
      /\ Quiet
      /\ u \in Employees => << u, today >> \in Keys
      /\ view' = IF u \notin Employees
                 THEN [NoView EXCEPT !.resp = "ProfileNotFound"]
                 ELSE IF ~row.exists
                 THEN [NoView EXCEPT !.resp = "NoAttendance", !.emp = u]
                 ELSE [ resp |-> "Status", emp |-> u,
                        canIn |-> V2CanCheckIn(now, row),
                        canOut |-> V2CanCheckOut(now, row) ]
      /\ UNCHANGED << office, cmd, impl, tz, clock, settings, records, req, weekday0, dup >>

\* Mutant of RequestWithoutProfile: the settings row is fetched first.
RequestWithoutProfile_SettingsFirst(p, kind, seq) ==
  /\ MayBegin(p, seq)
  /\ settings' = IF impl = "v1" THEN SettingsGetOrCreate(settings)
                 ELSE settings
  /\ req' = [req EXCEPT ![p] =
               [IdleReq EXCEPT !.pc = "done", !.kind = kind,
                               !.resp = "ProfileNotFound"]]
  /\ UNCHANGED << office, cmd, impl, tz, clock, records, weekday0, dup, view >>

\* check_in / check_out of either application for a user without an
\* Employee row: the first statement of the handler raises DoesNotExist,
\* which is answered with 'Employee profile not found.'
RequestWithoutProfile(p, kind, seq) ==
  /\ MayBegin(p, seq)
  /\ req' = [req EXCEPT ![p] =
               [IdleReq EXCEPT !.pc = "done", !.kind = kind,
                               !.resp = "ProfileNotFound"]]
  /\ UNCHANGED << office, cmd, impl, tz, clock, settings, records, weekday0, dup, view >>

\* ------------------------------------ the settings table: admin.py and
\* management/commands/create_sample_data.py
\* The number of AttendanceSettings rows.
SettingsRows == (IF settings.exists THEN 1 ELSE 0) + extra

\* AttendanceSettingsAdmin.has_add_permission, as the add view tests it
\* before it saves the form: no settings row exists.
AdminAddSettingsCheck(a) ==
  /\ impl = "v1"
  /\ adm[a] = "idle"
  /\ SettingsRows = 0
  /\ adm' = [adm EXCEPT ![a] = "add"]
  /\ UNCHANGED << impl, tz, clock, settings, records, req, weekday0, dup,
                  view, cmd, seeded, extra, autoKeys, users, profiles,
                  addReq, leaves >>

\* The add view saves the form: an insert with a key from the key
\* sequence.  The first key is 1.  When key 1 was inserted by
\* get_or_create(pk=1), the next key is either 1 again (the sequence was not
\* moved: the insert fails) or the largest key plus one.
AdminAddSettingsSave(a, row) ==
  /\ impl = "v1"
  /\ adm[a] = "add"
  /\ adm' = [adm EXCEPT ![a] = "idle"]
  /\ autoKeys' = autoKeys + 1
  /\ IF ~settings.exists /\ autoKeys = 0
     THEN settings' = row /\ extra' = extra
     ELSE /\ settings' = settings
          /\ \/ extra' = extra + 1
             \/ autoKeys = 0 /\ extra' = extra
  /\ UNCHANGED << impl, tz, clock, records, req, weekday0, dup, view, cmd,
                  seeded, users, profiles, addReq, leaves >>

\* create_sample_data: get_or_create(pk=1) of the settings row, with the
\* field defaults (the sample employees are the employees of the model).
CreateSampleData ==
  /\ impl = "v1"
  /\ settings' = SettingsGetOrCreate(settings)
  /\ UNCHANGED << office, cmd, impl, tz, clock, records, req, weekday0, dup,
                  view >>

\* -------------------------------------------- views.py: admin_add_employee
\* admin_add_employee by administrator a for the username un and the
\* employee id id; bad: a field of the profile (department, position,
\* hire_date) is missing or malformed.  First the test of the username.
AddEmployeeBegin(a, un, id, bad) ==
  LET r0 == [ pc |-> "checkId", username |-> un, empId |-> id, bad |-> bad,
              resp |-> "none" ]
  IN  /\ impl = "v1"
      /\ addReq[a].pc \in {"idle", "done"}
      /\ addReq' = [addReq EXCEPT ![a] =
                      IF un \in users
                      THEN [r0 EXCEPT !.pc = "done",
                                      !.resp = "UsernameExists"]
                      ELSE r0]
      /\ UNCHANGED << impl, tz, clock, settings, records, req, weekday0, dup,
                      view, cmd, seeded, extra, autoKeys, adm, users,
                      profiles, leaves >>

\* The test of the employee id.
AddEmployeeCheckId(a) ==
  /\ impl = "v1"
  /\ addReq[a].pc = "checkId"
  /\ addReq' = [addReq EXCEPT ![a] =
                  IF \E pr \in profiles : pr.empId = addReq[a].empId
                  THEN [addReq[a] EXCEPT !.pc = "done",
                                         !.resp = "EmployeeIdExists"]
                  ELSE [addReq[a] EXCEPT !.pc = "createUser"]]
  /\ UNCHANGED << impl, tz, clock, settings, records, req, weekday0, dup,
                  view, cmd, seeded, extra, autoKeys, adm, users, profiles,
                  leaves >>

\* User.objects.create_user: the username is unique; IntegrityError is
\* caught by the handler's except clause.
AddEmployeeCreateUser(a) ==
  /\ impl = "v1"
  /\ addReq[a].pc = "createUser"
  /\ IF addReq[a].username \in users
     THEN /\ addReq' = [addReq EXCEPT ![a].pc = "done", ![a].resp = "Error"]
          /\ users' = users
     ELSE /\ addReq' = [addReq EXCEPT ![a].pc = "createEmployee"]
          /\ users' = users \cup {addReq[a].username}
  /\ UNCHANGED << impl, tz, clock, settings, records, req, weekday0, dup,
                  view, cmd, seeded, extra, autoKeys, adm, profiles,
                  leaves >>

\* Employee.objects.create: KeyError or ValidationError on a bad field and
\* IntegrityError on an employee id that is taken are caught by the except
\* clause; the handler has no transaction, so the User row stays.
AddEmployeeCreateEmployee(a) ==
  /\ impl = "v1"
  /\ addReq[a].pc = "createEmployee"
  /\ IF addReq[a].bad \/ \E pr \in profiles : pr.empId = addReq[a].empId
     THEN /\ addReq' = [addReq EXCEPT ![a].pc = "done", ![a].resp = "Error"]
          /\ profiles' = profiles
     ELSE /\ addReq' = [addReq EXCEPT ![a].pc = "done",
                                      ![a].resp = "Success"]
          /\ profiles' = profiles \cup { [ user |-> addReq[a].username,
                                           empId |-> addReq[a].empId ] }
  /\ UNCHANGED << impl, tz, clock, settings, records, req, weekday0, dup,
                  view, cmd, seeded, extra, autoKeys, adm, users, leaves >>

\* ------------------- views.py: submit_leave_request, admin_update_leave_status
\* submit_leave_request of an employee: LeaveRequest.objects.create with
\* status 'pending'; the row gets the next id.
SubmitLeaveRequest(e) ==
  /\ impl = "v1"
  /\ \E i \in LeaveIds :
       /\ ~leaves[i].exists
       /\ \A j \in LeaveIds : j < i => leaves[j].exists
       /\ leaves' = [leaves EXCEPT ![i] = [NoLeave EXCEPT !.exists = TRUE,
                                                          !.status = "pending"]]
  /\ UNCHANGED << impl, tz, clock, settings, records, req, weekday0, dup,
                  view, cmd, seeded, extra, autoKeys, adm, users, profiles,
                  addReq >>

\* The values of 'status' an administrator's request may carry: the three
\* choices and a string that is none of them.
PostedStatuses == {"pending", "approved", "rejected", "cancelled"}

\* admin_update_leave_status: the row of the posted id (404 is answered as
\* a failure when there is none) gets the posted status, the administrator
\* as approved_by and the current instant as approved_date, and is saved.
AdminUpdateLeaveStatus(a, i, status) ==
  /\ impl = "v1"
  /\ leaves' = IF ~leaves[i].exists THEN leaves
               ELSE [leaves EXCEPT ![i].status = status,
                                   ![i].approvedBy = TRUE,
                                   ![i].approvedDate = TimezoneNow(clock)]
  /\ UNCHANGED << impl, tz, clock, settings, records, req, weekday0, dup,
                  view, cmd, seeded, extra, autoKeys, adm, users, profiles,
                  addReq >>

\* ------------------------------------------------------- specifications
Step(p) ==
  \/ CheckInGetOrCreate(p)
  \/ CheckInRead(p)
  \/ CheckInSave(p)
  \/ CheckOutGet(p)
  \/ CheckOutSave(p)
  \/ V2CheckInGetOrCreate(p)
  \/ V2CheckInSave(p)
  \/ V2CheckOutGet(p)
  \/ V2CheckOutSave(p)

Begin(p, e, seq) ==
  \/ CheckInBegin(p, e, seq)
  \/ CheckOutBegin(p, e, seq)
  \/ V2CheckInBegin(p, e, seq)
  \/ V2CheckOutBegin(p, e, seq)

\* Requests interleave at their store operations.
Next ==
  \/ Tick(FALSE)
  \/ \E e \in Employees : Dashboard(e, FALSE)
  \/ \E p \in Procs, e \in Employees : Begin(p, e, FALSE)
  \/ \E p \in Procs : Step(p)

\* One request at a time.
NextSeq ==
  \/ Tick(TRUE)
  \/ \E e \in Employees : Dashboard(e, TRUE)
  \/ \E p \in Procs, e \in Employees : Begin(p, e, TRUE)
  \/ \E p \in Procs : Step(p)

Spec == Init /\ [][Next]_vars
SpecSeq == Init /\ [][NextSeq]_vars

\* A deployment of emp_apps in which the sample-data command and the
\* administrator's saves run between the (interleaving) requests, from a
\* store without rows; day 0 is a Friday or a Saturday.
InitGen ==
  /\ impl = "v1"
  /\ tz \in TzOffsets
  /\ clock = FirstInstant
  /\ settings = NoSettings
  /\ records = [k \in Keys |-> NoRecord]
  /\ req = [p \in Procs |-> IdleReq]
  /\ weekday0 \in {4, 5}
  /\ dup = FALSE
  /\ view = NoView
  /\ InitOffice

NextGen ==
  \/ Tick(FALSE)
  \/ \E e \in Employees : Dashboard(e, FALSE)
  \/ \E p \in Procs, e \in Employees :
       CheckInBegin(p, e, FALSE) \/ CheckOutBegin(p, e, FALSE)
  \/ \E p \in Procs :
       \/ CheckInGetOrCreate(p)
       \/ CheckInRead(p)
       \/ CheckInSave(p)
       \/ CheckOutGet(p)
       \/ CheckOutSave(p)
  \/ \E emps \in SUBSET Employees, start \in Days, end \in Days,
        clear \in BOOLEAN :
       CreateAttendanceRecords(emps, start, end, clear)
  \/ \E k \in Keys : AdminSaveRecord(k)

SpecGen == InitGen /\ [][NextGen]_vars

\* One request at a time, with the status query of the employees.
NextQuery ==
  \/ NextSeq
  \/ \E u \in Employees : GetAttendanceStatus(u)
  \/ \E u \in Employees : V2EmployeeDashboard(u)

SpecQuery == Init /\ [][NextQuery]_vars

\* One request at a time, with the requests of a user who has no employee
\* profile.
NextNoProfile ==
  \/ NextSeq
  \/ \E u \in Users \ Employees : GetAttendanceStatus(u)
  \/ \E u \in Users \ Employees : V2EmployeeDashboard(u)
  \/ \E p \in Procs, kind \in {"in", "out"} :
       RequestWithoutProfile(p, kind, TRUE)

SpecNoProfile == Init /\ [][NextNoProfile]_vars

\* One request at a time, in a deployment whose local zone is UTC or eight
\* hours west of it (the instants of the clock then fall on one local day).
WestOffset == 0 - HM(8, 0)

InitTz ==
  /\ impl \in {"v1", "v2"}
  /\ tz \in {0, WestOffset}
  /\ clock = FirstInstant
  /\ settings \in IF impl = "v1"
                  THEN {NoSettings, ScenarioSettings, OverlapSettings}
                  ELSE {NoSettings}
  /\ records \in IF impl = "v1"
                 THEN {[k \in Keys |-> NoRecord]}
                 ELSE {[k \in Keys |-> NoRecord],
                       [k \in Keys |-> IF k = <<1, 0>> THEN AbsentRecord
                                                       ELSE NoRecord]}
  /\ req = [p \in Procs |-> IdleReq]
  /\ weekday0 = 0
  /\ dup = FALSE
  /\ view = NoView
  /\ InitOffice

SpecTz == InitTz /\ [][NextSeq]_vars

\* The command create_attendance_records run again and again, over the
\* employees and their colleagues and over yesterday and today, a Friday
\* and a Saturday, between visits of the dashboard.
InitCmd == InitGen /\ weekday0 = 5

NextCmd ==
  \/ \E e \in Employees : Dashboard(e, FALSE)
  \/ \E emps \in SUBSET (Employees \cup Colleagues),
        start \in Days \cup PastDays, end \in Days \cup PastDays,
        clear \in BOOLEAN :
       Handle(emps, start, end, clear)

SpecCmd == InitCmd /\ [][NextCmd]_vars

\* Interleaving requests in a store that already holds rows of other keys:
\* the employee's row of the day before, checked in at 09:00 and never
\* checked out, and a colleague's rows of both days; today's row of the
\* employee is absent or, in v2, there with the field defaults.
OpenRow(d) ==
  [ exists |-> TRUE,
    cin |-> IF impl = "v1" THEN MakeAware(d, HM(9, 0), tz) ELSE HM(9, 0),
    cout |-> NoTime, status |-> "present", wh |-> NoHours, late |-> FALSE ]

InitFrame ==
  /\ impl \in {"v1", "v2"}
  /\ tz \in TzOffsets
  /\ clock = FirstInstant
  /\ settings \in IF impl = "v1" THEN {NoSettings, ScenarioSettings}
                  ELSE {NoSettings}
  /\ \E today \in IF impl = "v1" THEN {NoRecord}
                   ELSE {NoRecord, AbsentRecord} :
       records = [k \in Keys |->
                    IF k[1] \in Employees /\ k[2] \in Days THEN today
                    ELSE IF k[1] \in Colleagues /\ k[2] \in PastDays
                      THEN AbsentRecord
                    ELSE OpenRow(k[2])]
  /\ req = [p \in Procs |-> IdleReq]
  /\ weekday0 = 0
  /\ dup = FALSE
  /\ view = NoView
  /\ InitOffice

SpecFrame == InitFrame /\ [][Next]_vars

\* The administrators' add-employee requests, interleaving at their store
\* operations.
NextStaff ==
  \/ \E a \in Admins, un \in Usernames, id \in EmployeeIds, bad \in BOOLEAN :
       AddEmployeeBegin(a, un, id, bad)
  \/ \E a \in Admins : AddEmployeeCheckId(a)
  \/ \E a \in Admins : AddEmployeeCreateUser(a)
  \/ \E a \in Admins : AddEmployeeCreateEmployee(a)

SpecStaff == InitGen /\ [][NextStaff]_vars

\* The leave requests of the employees and the administrators' decisions,
\* as the clock advances.
NextLeave ==
  \/ Tick(FALSE)
  \/ \E e \in Employees : SubmitLeaveRequest(e)
  \/ \E a \in Admins, i \in LeaveIds, status \in PostedStatuses :
       AdminUpdateLeaveStatus(a, i, status)

SpecLeave == InitGen /\ [][NextLeave]_vars

\* The operations on the settings table, interleaving: the administrators'
\* 'add settings', the get-or-create of the dashboard and of the status
\* query, and the sample-data command.
NextSettings ==
  \/ Tick(FALSE)
  \/ \E e \in Employees : Dashboard(e, FALSE)
  \/ \E u \in Employees : GetAttendanceStatus(u)
  \/ CreateSampleData
  \/ \E a \in Admins : AdminAddSettingsCheck(a)
  \/ \E a \in Admins,
        row \in {DefaultSettings, ScenarioSettings, OverlapSettings} :
       AdminAddSettingsSave(a, row)

SpecSettings == Init /\ [][NextSettings]_vars

\* ---------------------------------------------------------------- claims
Done(p) == req[p].pc = "done"
KeyOf(p) == << req[p].emp, req[p].today >>
InFlight(p) == req[p].pc \notin {"idle", "done"}
\* Process p takes a step that ends its request.
Ends(p) == req[p].pc # "done" /\ req'[p].pc = "done" /\ req'[p] # req[p]
\* Process p takes a step of a request of the given kind.
Steps(p, kind) == req'[p] # req[p] /\ req'[p].kind = kind

\* C1: two check-in requests of one employee for one date that were both
\* started inside the check-in window before the row had a check-in time:
\* exactly one reports success, the other 'already checked in', and the
\* stored check_in_time is that of the successful one.
C1_ConcurrentCheckInOneSuccess ==
  \A p, q \in Procs :
    ( /\ p # q /\ impl = "v1"
      /\ Done(p) /\ Done(q)
      /\ req[p].kind = "in" /\ req[q].kind = "in"
      /\ KeyOf(p) = KeyOf(q)
      /\ req[p].fresh /\ req[q].fresh
      /\ req[p].resp # "OutOfWindow" /\ req[q].resp # "OutOfWindow" )
    => \/ /\ req[p].resp = "Success" /\ req[q].resp = "AlreadyCheckedIn"
          /\ records[KeyOf(p)].cin = req[p].time
       \/ /\ req[q].resp = "Success" /\ req[p].resp = "AlreadyCheckedIn"
          /\ records[KeyOf(p)].cin = req[q].time

\* C2: sequentially, a check-in request made inside the window for a row
\* that already has a check-in time ends with AlreadyCheckedIn and leaves
\* the row as the first check-in left it.
C2_SecondCheckInRejected ==
  [][ \A p \in Procs :
        ( /\ Ends(p) /\ req'[p].kind = "in"
          /\ req'[p].pre.cin # NoTime
          /\ IsCheckInAllowed(req'[p].cfg, req'[p].time) )
        => /\ req'[p].resp = "AlreadyCheckedIn"
           /\ records' = records
           /\ records'[<< req'[p].emp, req'[p].today >>] = req'[p].pre ]_vars

\* C2 witness: a check-in has succeeded and a later one for the same row,
\* inside the window, has ended.
C2_Witness ==
  \E p, q \in Procs :
    /\ p # q /\ Done(p) /\ Done(q)
    /\ req[p].kind = "in" /\ req[p].resp = "Success"
    /\ req[q].kind = "in" /\ req[q].resp = "AlreadyCheckedIn"
    /\ KeyOf(p) = KeyOf(q)
    /\ req[q].pre.cin = records[KeyOf(p)].cin
    /\ req[q].time > req[p].time

\* C3: sequentially, a row only moves no-row -> checked-in -> checked-out:
\* a row is never removed, check_in_time once set is kept, check_out_time is
\* set only on a row with a check-in time, and a checked-out row is final.
C3_Lifecycle ==
  [][ \A k \in Keys :
        /\ records[k].exists => records'[k].exists
        /\ records[k].cin # NoTime => records'[k].cin = records[k].cin
        /\ records'[k].cout # NoTime => records'[k].cin # NoTime
        /\ records[k].cout # NoTime => records'[k] = records[k] ]_vars

\* C3 witness: a row is checked out and a later check-in and a later
\* check-out request for it have both ended.
C3_Witness ==
  \E p, q \in Procs :
    /\ p # q /\ Done(p) /\ Done(q) /\ KeyOf(p) = KeyOf(q)
    /\ req[p].kind = "in" /\ req[q].kind = "out"
    /\ req[p].pre.cout # NoTime /\ req[q].pre.cout # NoTime
    /\ records[KeyOf(p)].cout # NoTime

\* C4: a successful check-in gives status late exactly when its time of day
\* is after the standard check-in time by more than late_threshold_minutes.
C4_LateIffBeyondThreshold ==
  \A p \in Procs :
    (Done(p) /\ req[p].kind = "in" /\ req[p].resp = "Success")
    => /\ req[p].rec.status \in {"late", "present"}
       /\ req[p].rec.status = "late"
            <=> TimeOf(req[p].time) > req[p].cfg.std + req[p].cfg.thr * 60

C6_Expected(p) ==
  LET t == TimeOf(req[p].time)
  IN  IF ~(req[p].cfg.coStart <= t /\ t <= req[p].cfg.coEnd)
        THEN "OutOfWindow"
      ELSE IF req[p].pre.cin = NoTime THEN "NotCheckedIn"
      ELSE IF req[p].pre.cout # NoTime THEN "AlreadyCheckedOut"
      ELSE IF req[p].time - req[p].pre.cin < 30 * 60 THEN "TooSoon"
      ELSE "Success"

\* C6: a check-out request reports the first failing condition in the order
\* OutOfWindow, NotCheckedIn, AlreadyCheckedOut, TooSoon.
C6_CheckOutOrder ==
  \A p \in Procs :
    (Done(p) /\ req[p].kind = "out") => req[p].resp = C6_Expected(p)

\* C6 witness: check-in at 08:00, check-out asked at 08:10 with the window
\* [17:00,18:00]: OutOfWindow.
C6_Witness ==
  \E p \in Procs :
    /\ Done(p) /\ req[p].kind = "out" /\ req[p].resp = "OutOfWindow"
    /\ req[p].cfg.coStart = HM(17, 0) /\ req[p].cfg.coEnd = HM(18, 0)
    /\ req[p].pre.cin # NoTime /\ TimeOf(req[p].pre.cin) = HM(8, 0)
    /\ TimeOf(req[p].time) = HM(8, 10)

\* C7: a check-out inside the window on a row with a check-in and no
\* check-out ends with TooSoon and leaves the rows as they are when fewer
\* than 1800 seconds have passed since the check-in, and succeeds otherwise.
C7_TooSoon ==
  [][ \A p \in Procs :
        ( /\ Ends(p) /\ req'[p].kind = "out"
          /\ req'[p].cfg.coStart <= TimeOf(req'[p].time)
          /\ TimeOf(req'[p].time) <= req'[p].cfg.coEnd
          /\ req'[p].pre.cin # NoTime /\ req'[p].pre.cout = NoTime )
        => IF req'[p].time - req'[p].pre.cin < 1800
           THEN /\ req'[p].resp = "TooSoon"
                /\ records' = records
                /\ records'[<< req'[p].emp, req'[p].today >>] = req'[p].pre
           ELSE /\ req'[p].resp = "Success"
                /\ records'[<< req'[p].emp, req'[p].today >>].cout
                     = req'[p].time ]_vars

\* C7 witness: check-in 17:00, check-out asked at 17:05 with the window
\* [17:00,18:00]: TooSoon, and the row has no check-out time or work hours.
C7_Witness ==
  \E p \in Procs :
    /\ Done(p) /\ req[p].kind = "out" /\ req[p].resp = "TooSoon"
    /\ req[p].cfg.coStart = HM(17, 0) /\ req[p].cfg.coEnd = HM(18, 0)
    /\ TimeOf(req[p].pre.cin) = HM(17, 0)
    /\ TimeOf(req[p].time) = HM(17, 5)
    /\ records[KeyOf(p)].cout = NoTime
    /\ records[KeyOf(p)].wh = NoHours

\* C8: every row with a check-out time has a check-in time, and the
\* check-out is at least 30 minutes after it (both applications, requests
\* interleaved).
C8_MinimumWork ==
  \A k \in Keys :
    records[k].cout # NoTime
    => /\ records[k].cin # NoTime
       /\ records[k].cout >= records[k].cin + 30 * 60

\* C8 witness: a row checked out exactly 30 minutes after its check-in.
C8_Witness ==
  \E k \in Keys :
    /\ records[k].cin # NoTime
    /\ records[k].cout = records[k].cin + 30 * 60

\* C9: a check-out inside the window for an employee without a row for
\* today, or with a row without check-in time, ends with NotCheckedIn; no
\* step of it creates or changes a row.
C9_NotCheckedIn ==
  [][ \A p \in Procs :
        /\ ( /\ req[p].pc = "get" /\ req[p].kind = "out"
             /\ req'[p] # req[p]
             /\ records[KeyOf(p)].cin = NoTime )
           => /\ req'[p].pc = "done"
              /\ req'[p].resp = "NotCheckedIn"
              /\ records' = records
        /\ (Free(p) /\ Steps(p, "out")) => records' = records ]_vars

\* C9 witness: a check-out inside the window has ended with NotCheckedIn
\* and there is still no row for that employee and date.
C9_Witness ==
  \E p \in Procs :
    /\ Done(p) /\ req[p].kind = "out" /\ req[p].resp = "NotCheckedIn"
    /\ req[p].cfg.coStart <= TimeOf(req[p].time)
    /\ TimeOf(req[p].time) <= req[p].cfg.coEnd
    /\ ~records[KeyOf(p)].exists

\* C10: a check-in request outside the inclusive window ends at once with
\* OutOfWindow, whether or not the row has a check-in time, and one inside
\* it (the bounds included) goes on; the window test changes no row.
C10_CheckInWindow ==
  [][ \A p \in Procs :
        (Free(p) /\ Steps(p, "in"))
        => LET t == TimeOf(req'[p].time)
               inside == req'[p].cfg.ciStart <= t /\ t <= req'[p].cfg.ciEnd
           IN  /\ records' = records
               /\ inside => req'[p].pc = "goc"
               /\ ~inside => /\ req'[p].pc = "done"
                             /\ req'[p].resp = "OutOfWindow" ]_vars

\* C10 witness: an employee who has checked in at the last second of the
\* window is refused with OutOfWindow after it.
C10_Witness ==
  \E p, q \in Procs :
    /\ Done(p) /\ Done(q) /\ KeyOf(p) = KeyOf(q)
    /\ req[p].kind = "in" /\ req[p].resp = "Success"
    /\ TimeOf(req[p].time) = req[p].cfg.ciEnd
    /\ req[q].kind = "in" /\ req[q].resp = "OutOfWindow"
    /\ ~req[q].fresh
    /\ records[KeyOf(q)].cin = req[p].time

\* C11: in emp_apps (attendance.v2 has no work_hours field), in every state
\* reached by requests, the sample-data command and saves, a row's
\* work_hours is set if and only if the row has both a check-in and a
\* check-out time.
C11_WorkHoursIffBothTimes ==
  \A k \in Keys :
    (impl = "v1" /\ records[k].exists)
    => ( records[k].wh # NoHours
         <=> (records[k].cin # NoTime /\ records[k].cout # NoTime) )

\* A check-out has succeeded and has left the hours on the row.
C11_Witness ==
  \E p \in Procs :
    /\ impl = "v1" /\ Done(p) /\ req[p].kind = "out"
    /\ req[p].resp = "Success"
    /\ records[KeyOf(p)].cout = req[p].time
    /\ records[KeyOf(p)].wh # NoHours

\* The distance, in 1/3600 hour, of the stored hundredths from the seconds
\* between check-in and check-out.
HoursError(rec) == 36 * rec.wh - (rec.cout - rec.cin)

\* C12 as stated: on a row of emp_apps with both times, work_hours is the
\* seconds between them over 3600, rounded half-up to 2 decimals, and
\* 09:00 to 17:30 gives 8.50.
C12_HalfUp ==
  \A k \in Keys :
    ( /\ impl = "v1" /\ records[k].exists
      /\ records[k].cin # NoTime /\ records[k].cout # NoTime )
    => /\ 0 - 18 < HoursError(records[k]) /\ HoursError(records[k]) <= 18
       /\ ( /\ TimeOf(records[k].cin) = HM(9, 0)
            /\ TimeOf(records[k].cout) = HM(17, 30)
            /\ DateOf(records[k].cin) = DateOf(records[k].cout) )
          => records[k].wh = 850

\* C12, amended: work_hours is the seconds between the two times over 3600,
\* rounded to the nearest hundredth, and to the even hundredth when the
\* quotient is exactly half way (8.125 gives 8.12); 09:00 to 17:30 gives
\* 8.50.
C12_NearestEven ==
  \A k \in Keys :
    ( /\ impl = "v1" /\ records[k].exists
      /\ records[k].cin # NoTime /\ records[k].cout # NoTime )
    => /\ 0 - 18 <= HoursError(records[k]) /\ HoursError(records[k]) <= 18
       /\ HoursError(records[k]) \in {0 - 18, 18} => records[k].wh % 2 = 0
       /\ ( /\ TimeOf(records[k].cin) = HM(9, 0)
            /\ TimeOf(records[k].cout) = HM(17, 30)
            /\ DateOf(records[k].cin) = DateOf(records[k].cout) )
          => records[k].wh = 850

\* A check-out at 17:07:30 after a check-in at 09:00:00 has succeeded:
\* 8.125 hours are stored as 8.12.
C12_Witness ==
  \E p \in Procs :
    /\ impl = "v1" /\ Done(p) /\ req[p].kind = "out"
    /\ req[p].resp = "Success"
    /\ TimeOf(records[KeyOf(p)].cin) = HM(9, 0)
    /\ records[KeyOf(p)].cout = req[p].time
    /\ TimeOf(req[p].time) = HMS(17, 7, 30)
    /\ records[KeyOf(p)].wh = 812

\* C13: the step that ends a check-out with success changes, of the stored
\* rows, only check_out_time and work_hours of the row of the request: its
\* status (present or late, as the check-in left it), its check_in_time
\* and every other row stay as they were.
C13_CheckOutFrame ==
  [][ \A p \in Procs :
        ( /\ impl = "v1" /\ Ends(p) /\ req'[p].kind = "out"
          /\ req'[p].resp = "Success" )
        => /\ records[KeyOf(p)'].status \in {"present", "late"}
           /\ records'[KeyOf(p)'] =
                [records[KeyOf(p)'] EXCEPT
                   !.cout = req'[p].time,
                   !.wh = records'[KeyOf(p)'].wh]
           /\ \A k \in Keys \ {KeyOf(p)'} : records'[k] = records[k] ]_vars

\* A check-out has succeeded on a row whose status is late.
C13_Witness ==
  \E p \in Procs :
    /\ impl = "v1" /\ Done(p) /\ req[p].kind = "out"
    /\ req[p].resp = "Success"
    /\ records[KeyOf(p)].status = "late"
    /\ records[KeyOf(p)].cout = req[p].time

\* C14 as stated: in every state reached by dashboard views, check-ins,
\* check-outs, saves and the sample-data command, a row that is not
\* half_day has status absent exactly when it has no check-in time: no row
\* with a check-in time is absent, no row without one is present or late.
C14_AbsentIffNoCheckIn ==
  \A k \in Keys :
    (records[k].exists /\ records[k].status # "half_day")
    => /\ records[k].status = "absent" <=> records[k].cin = NoTime
       /\ records[k].cin # NoTime => records[k].status # "absent"
       /\ records[k].cin = NoTime
            => records[k].status \notin {"present", "late"}

CreatesByCheckIn(p, k) ==
  /\ req[p].kind = "in" /\ req[p].pc = "goc" /\ req'[p].pc # "goc"
  /\ KeyOf(p) = k

\* The dashboard is viewed for the pair k (no request changes).
CreatesByDashboard(k) ==
  /\ req' = req /\ clock' = clock /\ k[2] = DateToday(clock, tz)

\* C16 as stated: in emp_apps a row comes into existence only in a step of
\* a check-in request for its pair, with status absent and no times, and
\* when a check-in request has ended, the row of its pair exists.
C16_CreatedByFirstAttempt ==
  [][ impl = "v1" =>
        /\ \A k \in Keys :
             (~records[k].exists /\ records'[k].exists)
             => /\ records'[k] = AbsentRecord
                /\ \E p \in Procs : Steps(p, "in") /\ KeyOf(p)' = k
        /\ \A p \in Procs :
             (Ends(p) /\ req'[p].kind = "in")
             => records'[KeyOf(p)'].exists ]_vars

\* C16, amended: a row comes into existence only by the get_or_create of a
\* dashboard view or of a check-in request that has passed the window
\* test, with status absent and no times; after either, the row exists; a
\* check-in request outside the window creates none.
C16_CreatedByDashboardOrCheckIn ==
  [][ impl = "v1" =>
        /\ \A k \in Keys :
             (~records[k].exists /\ records'[k].exists)
             => /\ records'[k] = AbsentRecord
                /\ \/ CreatesByDashboard(k)
                   \/ \E p \in Procs : CreatesByCheckIn(p, k)
        /\ \A p \in Procs, k \in Keys :
             CreatesByCheckIn(p, k) => records'[k].exists
        /\ \A p \in Procs :
             ( /\ Ends(p) /\ req'[p].kind = "in"
               /\ req'[p].resp = "OutOfWindow" )
             => records' = records ]_vars

\* The only request so far is a check-in outside the window, and the row
\* of its pair exists, with status absent and no times: a dashboard view
\* has created it.
C16_Witness ==
  \E p \in Procs :
    /\ impl = "v1"
    /\ Done(p) /\ req[p].kind = "in" /\ req[p].resp = "OutOfWindow"
    /\ records[KeyOf(p)] = AbsentRecord
    /\ \A q \in Procs \ {p} : req[q].pc = "idle"

\* The time of day, the windows and the row that the flags are about.
FlagTime == IF impl = "v1" THEN TimeOf(TimezoneNow(clock))
            ELSE TimeOf(Localtime(clock, tz))
FlagWindows == IF impl = "v1" THEN SettingsGetOrCreate(settings)
               ELSE V2Windows
FlagRow(u) ==
  records[<< u, IF impl = "v1" THEN DateToday(clock, tz)
                ELSE DateOf(Localtime(clock, tz)) >>]

\* C17: when the status of employee u is answered, can_check_in is true
\* exactly if the time of day is inside the inclusive check-in window and
\* the row of the day has no check-in time (or does not exist), and
\* can_check_out is true exactly if the time of day is inside the
\* inclusive check-out window and the row has a check-in time and no
\* check-out time.
C17_Flags ==
  [][ (view' # view /\ view'.resp = "Status")
      => /\ view'.canIn = "True"
            <=> /\ FlagWindows.ciStart <= FlagTime
                /\ FlagTime <= FlagWindows.ciEnd
                /\ FlagRow(view'.emp).cin = NoTime
         /\ view'.canOut = "True"
            <=> /\ FlagWindows.coStart <= FlagTime
                /\ FlagTime <= FlagWindows.coEnd
                /\ FlagRow(view'.emp).exists
                /\ FlagRow(view'.emp).cin # NoTime
                /\ FlagRow(view'.emp).cout = NoTime ]_vars

\* The status was answered with can_check_out true, after a check-in.
C17_Witness ==
  /\ view.resp = "Status" /\ view.canOut = "True" /\ view.canIn = "False"
  /\ \E p \in Procs : Done(p) /\ req[p].kind = "in" /\ req[p].resp = "Success"

\* C18 as stated: the step that answers the status query changes no
\* attendance row and no settings row, and asking again in the state it
\* leaves gives the same flags.
C18_QueryHasNoEffect ==
  [][ (view' # view /\ view'.resp = "Status" /\ impl = "v1")
      => /\ records' = records
         /\ settings' = settings
         /\ view'.canIn =
              CanCheckIn(SettingsGetOrCreate(settings'),
                         TimezoneNow(clock'),
                         records'[<< view'.emp, DateToday(clock', tz') >>])
         /\ view'.canOut =
              CanCheckOut(SettingsGetOrCreate(settings'),
                          TimezoneNow(clock'),
                         records'[<< view'.emp, DateToday(clock', tz') >>]) ]_vars

\* C19: a check-in or check-out request, or a status query, of the user
\* without employee profile is answered in its first step with
\* ProfileNotFound, and that step changes no attendance row and no
\* settings row.
C19_ProfileNotFound ==
  [][ /\ \A p \in Procs :
           ( /\ req'[p] # req[p] /\ req'[p].kind \in {"in", "out"}
             /\ req'[p].emp \notin Employees )
           => /\ Free(p)
              /\ req'[p].pc = "done"
              /\ req'[p].resp = "ProfileNotFound"
              /\ req'[p].rec = NoRecord
              /\ records' = records
              /\ settings' = settings
      /\ ( /\ view' # view /\ view'.resp # "none"
           /\ view'.emp \notin Employees )
         => /\ view'.resp = "ProfileNotFound"
            /\ view'.canIn = "none" /\ view'.canOut = "none"
            /\ records' = records
            /\ settings' = settings ]_vars

\* A check-in and a status query of the user without profile have been
\* answered with ProfileNotFound, and no settings row was created.
C19_Witness ==
  /\ \E p \in Procs :
       Done(p) /\ req[p].kind = "in" /\ req[p].resp = "ProfileNotFound"
  /\ view.resp = "ProfileNotFound"
  /\ impl = "v1" /\ ~settings.exists

\* C20 as stated: every stored row has a status of ATTENDANCE_STATUS.
C20_StatusInEnumeration ==
  \A k \in Keys :
    records[k].exists
    => records[k].status \in {"present", "late", "absent", "half_day"}

\* C21 as stated: after every step of the administrators' 'add settings',
\* of the handlers' get-or-create and of the sample-data command there is
\* at most one settings row, and no step removes a settings row.
C21_SettingsSingleton ==
  [][ /\ SettingsRows' <= 1
      /\ settings.exists => settings'.exists
      /\ extra' >= extra ]_vars

\* The time of day and the date of the instant on the local clock.
LocalTimeOfDay(clk) == TimeOf(Localtime(clk, tz))
LocalDate(clk) == DateOf(Localtime(clk, tz))
InWindow(kind, cfg, t) ==
  IF kind = "in" THEN cfg.ciStart <= t /\ t <= cfg.ciEnd
  ELSE cfg.coStart <= t /\ t <= cfg.coEnd

\* C22 as stated: for every offset of the local zone, a check-in or
\* check-out request that starts at an instant is tested against its window
\* at the local time of day of that instant (it is refused as outside the
\* window exactly when that local time is outside), and it is keyed by the
\* local date of that instant.
C22_LocalWallClock ==
  [][ \A p \in Procs :
        (Free(p) /\ req'[p] # req[p]) =>
          /\ req'[p].today = LocalDate(clock)
          /\ req'[p].resp = "OutOfWindow"
               <=> ~InWindow(req'[p].kind, req'[p].cfg, LocalTimeOfDay(clock)) ]_vars

\* C23: a run of create_attendance_records with start > end reports the
\* error and changes no record; a run with start <= end leaves every
\* selected employee with a record (the only one: no row is stored under a
\* key that has one) for each date from start to end inclusive, leaves the
\* records outside that range as they were and, without --clear-existing,
\* leaves every record that was there unchanged, the new records being
\* those of the pairs that had none.
C23_CommandPostcondition ==
  [][ cmd' # cmd =>
        IF cmd'.start > cmd'.end
        THEN cmd'.out = "error" /\ records' = records /\ dup' = dup
        ELSE /\ cmd'.out = "ok"
             /\ dup' = dup
             /\ \A k \in Keys :
                  IF k[1] \in cmd'.emps /\ cmd'.start <= k[2]
                                        /\ k[2] <= cmd'.end
                  THEN /\ records'[k].exists
                       /\ (~cmd'.clear /\ records[k].exists)
                            => records'[k] = records[k]
                  ELSE records'[k] = records[k] ]_vars

\* A run without --clear-existing over both employees and both days (day 0
\* a Saturday) has kept the 'absent' row that the dashboard had made for
\* the first employee and has filled in the other three pairs.
C23_Witness ==
  /\ cmd = [ out |-> "ok", emps |-> Employees \cup Colleagues,
             start |-> 0 - 1, end |-> 0, clear |-> FALSE ]
  /\ weekday0 = 5
  /\ records[<< 1, 0 >>] = AbsentRecord
  /\ \A k \in Keys : records[k].exists

\* C24 as stated: of two check-out requests of one employee for one date
\* that both passed the window test on a row that had its check-in, neither
\* being refused as too soon, when one reports success the other reports
\* 'already checked out', and the stored check_out_time is that of the
\* successful one.
C24_ConcurrentCheckOutOneSuccess ==
  \A p, q \in Procs :
    ( /\ p # q
      /\ Done(p) /\ Done(q)
      /\ req[p].kind = "out" /\ req[q].kind = "out"
      /\ KeyOf(p) = KeyOf(q)
      /\ ~req[p].fresh /\ ~req[q].fresh
      /\ req[q].resp \notin {"OutOfWindow", "NotCheckedIn", "TooSoon"}
      /\ req[p].resp = "Success" )
    => /\ req[q].resp = "AlreadyCheckedOut"
       /\ records[KeyOf(p)].cout = req[p].time

\* Process p's request ends with this step.
Answered(p) == req'[p] # req[p] /\ req'[p].pc = "done"
\* The flags the status query of emp_apps computes at the time and on the
\* row of the request that process p has made.
FlagIn(r) == CanCheckIn(r.cfg, r.time, r.pre) = "True"
FlagOut(r) == CanCheckOut(r.cfg, r.time, r.pre) = "True"

\* C25: in attendance.v2, for a pair that had no row when the deployment
\* started, a check-in request inside 08:00-09:00 ends with success exactly
\* when its get_or_create creates the row, which then holds the request's
\* time as check_in_time; a request that finds the row ends with 'already
\* checked in' and changes nothing; and a check_in_time that is set is not
\* written again.  So of two (or more) concurrent requests on a pair without
\* row exactly one, the one that creates the row, succeeds.
C25_V2ConcurrentCheckInOneSuccess ==
  [][ /\ \A p \in Procs :
           LET k == << req'[p].emp, req'[p].today >>
           IN  ( /\ impl = "v2" /\ Answered(p)
                 /\ req'[p].kind = "in"
                 /\ req'[p].resp # "OutOfWindow"
                 /\ k \notin seeded )
               => IF ~records[k].exists
                  THEN /\ req'[p].resp = "Success"
                       /\ records'[k].cin = req'[p].time
                  ELSE /\ req'[p].resp = "AlreadyCheckedIn"
                       /\ records' = records
      /\ \A k \in Keys :
           (impl = "v2" /\ k \notin seeded /\ records[k].cin # NoTime)
             => records'[k].cin = records[k].cin ]_vars

\* Two check-ins of attendance.v2, started at different times while the
\* pair had no row, have ended: the later one succeeded.
C25_Witness ==
  \E p, q \in Procs :
    /\ p # q /\ impl = "v2"
    /\ Done(p) /\ Done(q)
    /\ req[p].kind = "in" /\ req[q].kind = "in"
    /\ KeyOf(p) = KeyOf(q) /\ KeyOf(p) \notin seeded
    /\ req[p].fresh /\ req[q].fresh
    /\ req[p].time < req[q].time
    /\ req[q].resp = "Success" /\ req[p].resp = "AlreadyCheckedIn"

\* C26 as stated: one request at a time, a check-in succeeds exactly when
\* can_check_in is true at its time and on its row, and a check-out
\* succeeds exactly when can_check_out is true at its time and on its row.
C26_FlagsAgree ==
  [][ \A p \in Procs :
        (impl = "v1" /\ Answered(p)) =>
          /\ req'[p].kind = "in"
               => (FlagIn(req'[p]) <=> req'[p].resp = "Success")
          /\ req'[p].kind = "out"
               => (FlagOut(req'[p]) <=> req'[p].resp = "Success") ]_vars

\* C26, amended: a check-in succeeds exactly when can_check_in is true; a
\* check-out fails whenever can_check_out is not true, and when it is true
\* the check-out succeeds if the check-in is at least 30 minutes old and is
\* refused as too soon otherwise.
C26_FlagsAgreeButMinimum ==
  [][ \A p \in Procs :
        (impl = "v1" /\ Answered(p)) =>
          /\ req'[p].kind = "in"
               => (FlagIn(req'[p]) <=> req'[p].resp = "Success")
          /\ req'[p].kind = "out"
               => /\ FlagOut(req'[p])
                       <=> req'[p].resp \in {"Success", "TooSoon"}
                  /\ req'[p].resp = "Success"
                       <=> /\ FlagOut(req'[p])
                           /\ req'[p].time - req'[p].pre.cin
                                >= MinimumWorkSeconds ]_vars

\* A check-out was refused as too soon at a time and on a row for which
\* can_check_out is true, and the status query had said so.
C26_Witness ==
  \E p \in Procs :
    /\ impl = "v1" /\ Done(p)
    /\ req[p].kind = "out" /\ req[p].resp = "TooSoon"
    /\ FlagOut(req[p])
    /\ view.resp = "Status" /\ view.canOut = "True"

\* C27 as stated: in attendance.v2 every row that check_in has written has
\* is_late true exactly when its status is 'late', and some time inside the
\* window 08:00-09:00 gives a late check-in; lateness being 'later than the
\* cut-off', the check-in at the very end of the window is then late.
C27_V2LateReachable ==
  impl = "v2" =>
    \A k \in Keys :
      records[k].cin # NoTime =>
        /\ records[k].late <=> records[k].status = "late"
        /\ records[k].cin = V2Windows.ciEnd => records[k].late

\* C28: a check-in or check-out request is keyed by its employee and the
\* date at which it starts; none of its steps changes an attendance row of
\* another key; and a row of a date that is not the current one changes
\* only by a request that started on that date and is still in flight: the
\* row of the day before that was left without check-out stays as it is.
C28_RequestFrame ==
  [][ /\ \A p \in Procs :
           /\ (Free(p) /\ req'[p] # req[p])
                => req'[p].today = LocalDate(clock)
           /\ req'[p] # req[p]
                => \A k \in Keys :
                     k # << req'[p].emp, req'[p].today >>
                       => records'[k] = records[k]
      /\ \A k \in Keys :
           (k[2] # LocalDate(clock) /\ records'[k] # records[k])
             => \E p \in Procs : InFlight(p) /\ KeyOf(p) = k ]_vars

\* A check-out inside the check-out window was answered 'not checked in'
\* while the employee's row of the day before is still open, after a request
\* of the day has written today's row.
C28_Witness ==
  \E p, q \in Procs :
    /\ Done(p) /\ req[p].kind = "out" /\ req[p].resp = "NotCheckedIn"
    /\ records[<< req[p].emp, req[p].today - 1 >>].cin # NoTime
    /\ records[<< req[p].emp, req[p].today - 1 >>].cout = NoTime
    /\ Done(q) /\ req[q].kind = "in" /\ req[q].resp = "Success"
    /\ \A k \in Keys : k[1] \in Colleagues => records[k].exists

\* C29 as stated: a request of admin_add_employee adds a User and its
\* Employee or neither, so whenever no such request is in flight every
\* User added through it has an Employee profile and there are as many
\* profiles as users.
C29_AddEmployeeAllOrNothing ==
  (\A a \in Admins : addReq[a].pc \in {"idle", "done"}) =>
    /\ \A un \in users : \E pr \in profiles : pr.user = un
    /\ Cardinality(profiles) = Cardinality(users)

\* C30 as stated: a leave request starts as pending without approver; its
\* status changes only from pending and only to approved or rejected; its
\* status is always pending, approved or rejected; approved_by and
\* approved_date are set exactly when it is no longer pending.
C30_LeaveLifecycle ==
  [][ \A i \in LeaveIds :
        /\ (~leaves[i].exists /\ leaves'[i].exists)
             => leaves'[i].status = "pending"
        /\ (leaves[i].exists /\ leaves'[i] # leaves[i])
             => /\ leaves[i].status = "pending"
                /\ leaves'[i].status \in {"approved", "rejected"}
        /\ leaves'[i].exists
             => /\ leaves'[i].status \in {"pending", "approved", "rejected"}
                /\ leaves'[i].approvedBy <=> leaves'[i].status # "pending"
                /\ leaves'[i].approvedDate # NoTime
                     <=> leaves'[i].status # "pending" ]_vars
====
